---------------------------- MODULE Spec2Model ----------------------------
(***************************************************************************)
(* A model of kabyliner.py: the five-stage batch pipeline                  *)
(*   download_tmx -> extract_parallel_corpus -> clean_corpus               *)
(*                -> split_tsv_to_txt -> final report.                     *)
(* Text is a sequence of one-character strings.  A file is a record with   *)
(* an "exists" flag and its content.                                       *)
(***************************************************************************)
EXTENDS Integers, Sequences, FiniteSets, TLC

TAB == "\t"
NL == "\n"
CR == "\r"
QUOTE == "\""
SP == " "

-----------------------------------------------------------------------------
(* Python string helpers. *)

\* str.strip() removes these characters (of the model's alphabet) at both ends.
IsSpace(c) == c \in {SP, TAB, NL, CR}

RECURSIVE LStrip(_)
LStrip(s) ==
    IF s = <<>> THEN <<>>
    ELSE IF IsSpace(Head(s)) THEN LStrip(Tail(s)) ELSE s

RECURSIVE RStrip(_)
RStrip(s) ==
    IF s = <<>> THEN <<>>
    ELSE IF IsSpace(s[Len(s)]) THEN RStrip(SubSeq(s, 1, Len(s) - 1)) ELSE s

Strip(s) == RStrip(LStrip(s))

\* sep.join(texts)
RECURSIVE Join(_, _)
Join(texts, sep) ==
    IF texts = <<>> THEN <<>>
    ELSE IF Len(texts) = 1 THEN texts[1]
    ELSE texts[1] \o sep \o Join(Tail(texts), sep)

\* s.split(d) for a one-character separator d
RECURSIVE SplitOn(_, _)
SplitOn(s, d) ==
    IF \E i \in 1..Len(s) : s[i] = d
    THEN LET i == CHOOSE k \in 1..Len(s) :
                      s[k] = d /\ \A j \in 1..(k - 1) : s[j] # d
         IN  <<SubSeq(s, 1, i - 1)>> \o SplitOn(SubSeq(s, i + 1, Len(s)), d)
    ELSE <<s>>

\* Reading a text file opened with newline=None: "\r\n" and "\r" become "\n".
RECURSIVE UniversalNewlines(_)
UniversalNewlines(s) ==
    IF s = <<>> THEN <<>>
    ELSE IF Head(s) = CR
         THEN IF Len(s) >= 2 /\ s[2] = NL
              THEN <<NL>> \o UniversalNewlines(SubSeq(s, 3, Len(s)))
              ELSE <<NL>> \o UniversalNewlines(Tail(s))
         ELSE <<Head(s)>> \o UniversalNewlines(Tail(s))

\* Iterating a text file: the lines, each with its "\n" except perhaps the last.
RECURSIVE LinesOf(_)
LinesOf(s) ==
    IF s = <<>> THEN <<>>
    ELSE IF \E i \in 1..Len(s) : s[i] = NL
         THEN LET i == CHOOSE k \in 1..Len(s) :
                           s[k] = NL /\ \A j \in 1..(k - 1) : s[j] # NL
              IN  <<SubSeq(s, 1, i)>> \o LinesOf(SubSeq(s, i + 1, Len(s)))
         ELSE <<s>>

ReadLines(data) == LinesOf(UniversalNewlines(data))

-----------------------------------------------------------------------------
(* csv.reader(infile, delimiter='\t'): the default dialect's state machine  *)
(* (quotechar '"', doublequote, not strict), run over the file's text.      *)

RECURSIVE CsvScan(_, _, _, _, _)
CsvScan(s, state, field, fields, rows) ==
    IF s = <<>>
    THEN IF state = "START_RECORD" THEN rows
         ELSE Append(rows, Append(fields, field))
    ELSE
      LET c == Head(s)
          rest == Tail(s)
          EndRecord == CsvScan(rest, "START_RECORD", <<>>, <<>>,
                               Append(rows, Append(fields, field)))
          SaveField == CsvScan(rest, "START_FIELD", <<>>, Append(fields, field), rows)
          AddChar(st) == CsvScan(rest, st, Append(field, c), fields, rows)
      IN
      CASE state = "START_RECORD" /\ c = NL ->
             CsvScan(rest, "START_RECORD", <<>>, <<>>, Append(rows, <<>>))
        [] state \in {"START_RECORD", "START_FIELD"} /\ c # NL ->
             IF c = QUOTE THEN CsvScan(rest, "IN_QUOTED_FIELD", field, fields, rows)
             ELSE IF c = TAB THEN SaveField
             ELSE AddChar("IN_FIELD")
        [] state = "START_FIELD" /\ c = NL -> EndRecord
        [] state = "IN_FIELD" ->
             IF c = NL THEN EndRecord
             ELSE IF c = TAB THEN SaveField
             ELSE AddChar("IN_FIELD")
        [] state = "IN_QUOTED_FIELD" ->
             IF c = QUOTE THEN CsvScan(rest, "QUOTE_IN_QUOTED_FIELD", field, fields, rows)
             ELSE AddChar("IN_QUOTED_FIELD")
        [] state = "QUOTE_IN_QUOTED_FIELD" ->
             IF c = QUOTE THEN AddChar("IN_QUOTED_FIELD")
             ELSE IF c = TAB THEN SaveField
             ELSE IF c = NL THEN EndRecord
             ELSE AddChar("IN_FIELD")

CsvRows(data) == CsvScan(UniversalNewlines(data), "START_RECORD", <<>>, <<>>, <<>>)

(* csv.writer(outfile, delimiter='\t'): QUOTE_MINIMAL, lineterminator "\r\n". *)

NeedsQuote(f) == \E i \in 1..Len(f) : f[i] \in {TAB, QUOTE, CR, NL}

RECURSIVE DoubleQuotes(_)
DoubleQuotes(f) ==
    IF f = <<>> THEN <<>>
    ELSE IF Head(f) = QUOTE THEN <<QUOTE, QUOTE>> \o DoubleQuotes(Tail(f))
    ELSE <<Head(f)>> \o DoubleQuotes(Tail(f))

WriteField(f) ==
    IF NeedsQuote(f) THEN <<QUOTE>> \o DoubleQuotes(f) \o <<QUOTE>> ELSE f

WriteRow(row) ==
    IF row = << <<>> >> THEN <<QUOTE, QUOTE, CR, NL>>
    ELSE Join([i \in 1..Len(row) |-> WriteField(row[i])], <<TAB>>) \o <<CR, NL>>

-----------------------------------------------------------------------------
(* Bounds of the model. *)

MaxLen == 2      \* largest byte length of a remote body or a cached file
MaxCalls == 2    \* calls of download_tmx in a row (the fetcher run on its own)
MaxTU == 2       \* <tu> elements of a document (the extractor run on its own)
MaxTuv == 3      \* <tuv> elements of one <tu>
MaxBody == 5     \* characters after the header line of a raw corpus file
MaxRows == 2     \* data rows of a cleaned corpus (the splitter run on its own)
MaxField == 2    \* characters of a field of such a row

-----------------------------------------------------------------------------
(* State. *)

VARIABLES
    pc,          \* the line of kabyliner.py about to run, or a stage's end
    remote,      \* the remote resource: status, Content-Length header, body
    response,    \* requests.get's response held in memory
    tmx,         \* kabyle-tm.tmx
    raw,         \* parallel_corpus.raw.tsv
    clean,       \* parallel_corpus.clean.tsv
    en,          \* en.txt
    kab,         \* kab.txt
    handles,     \* the file handles that are open
    gets,        \* full-body requests issued by the current download_tmx call
    heads,       \* metadata requests issued by the current call
    totalGets,   \* full-body requests issued by all calls
    calls,       \* calls of download_tmx so far
    skipped,     \* the current call took the "Skipping download" return
    tmxAtCall,   \* kabyle-tm.tmx as it was when the current call began
    tus,         \* the parsed document's <tu> elements not yet visited
    tuCount,     \* <tu> elements visited
    rawBefore,   \* the raw corpus before the last <tu> was visited
    tuFacts,     \* what the last visited <tu> held, and whether all were plain
    rows,        \* the csv reader's rows not yet read
    kept,
    removed,
    result,      \* clean_corpus's return value
    lines,       \* the splitter's input lines not yet read
    enCount,     \* count_lines(EN_FILE)
    kabCount,    \* count_lines(KAB_FILE)
    started,     \* the stages started, in order
    completed,   \* the stages that returned, in order
    failed,      \* the stage that raised, or "none"
    err,         \* the error raised, or "none"
    printed,     \* the except clause printed the error message
    exitStatus   \* -1 while running, then the process's exit status

worldVars == <<remote>>
fetchVars == <<response, gets, heads, totalGets, calls, skipped, tmxAtCall>>
extractVars == <<tus, tuCount, rawBefore, tuFacts>>
cleanVars == <<rows, kept, removed, result>>
splitVars == <<lines>>
reportVars == <<enCount, kabCount>>
mainVars == <<started, completed, failed, err, printed, exitStatus>>
fileVars == <<tmx, raw, clean, en, kab>>
vars == <<pc, remote, response, tmx, raw, clean, en, kab, handles, gets, heads,
          totalGets, calls, skipped, tmxAtCall, tus, tuCount, rawBefore, tuFacts,
          rows, kept, removed, result, lines, enCount, kabCount, started,
          completed, failed, err, printed, exitStatus>>

\* A text file that is absent, and one holding data.
NoFile == [exists |-> FALSE, data |-> <<>>]
TextFile(d) == [exists |-> TRUE, data |-> d]

\* The TMX file: its byte length and what an XML parser makes of it.
NoTmx == [exists |-> FALSE, len |-> 0, wf |-> FALSE, tus |-> <<>>]
TmxFile(body) == [exists |-> TRUE, len |-> body.len, wf |-> body.wf, tus |-> body.tus]
EmptyTmx == [exists |-> TRUE, len |-> 0, wf |-> FALSE, tus |-> <<>>]

NoResponse == [status |-> 0, body |-> [len |-> 0, wf |-> FALSE, tus |-> <<>>]]
NoResult == [returned |-> FALSE, kept |-> 0, removed |-> 0]
NoFacts == [visited |-> FALSE, hasSrc |-> FALSE, hasTgt |-> FALSE, allPlain |-> TRUE]

-----------------------------------------------------------------------------
(* Control: a stage returns, or raises into the top-level except clause. *)

StageOrder == <<"Fetcher", "Extractor", "Cleaner", "Splitter", "Reporter">>

Return(stage, at) ==
    /\ pc' = at
    /\ completed' = Append(completed, stage)
    /\ UNCHANGED <<started, failed, err, printed, exitStatus>>

Raise(stage, kind) ==
    /\ pc' = "raised"
    /\ failed' = stage
    /\ err' = kind
    /\ UNCHANGED <<started, completed, printed, exitStatus>>

Goto(at) ==
    /\ pc' = at
    /\ UNCHANGED mainVars

-----------------------------------------------------------------------------
(* download_tmx *)

SUCCESS == 200

\* head_response.headers.get("Content-Length", -1), mutated: a missing header reads 0.
RemoteSizeZeroDefault(header) == IF header.present THEN header.value ELSE 0

\* int(head_response.headers.get("Content-Length", -1))
RemoteSize(header) == IF header.present THEN header.value ELSE -1

\* remote_size == local_size, mutated: never equal.
SizesMatchNever(remoteSize, localSize) == FALSE

\* remote_size == local_size
SizesMatch(remoteSize, localSize) == remoteSize = localSize

\* response.status_code == 200, mutated: every response is taken as a success.
StatusOkAlways(resp) == TRUE

\* response.status_code == 200
StatusOk(resp) == resp.status = SUCCESS

\* if os.path.exists(local_filename):
FetchExists ==
    /\ pc = "f10"
    /\ Goto(IF tmx.exists THEN "f11" ELSE "f18")
    /\ UNCHANGED <<worldVars, fetchVars, fileVars, handles, extractVars, cleanVars,
                   splitVars, reportVars>>

\* The metadata request and the size comparison.
FetchHead ==
    /\ pc = "f11"
    /\ heads' = heads + 1
    /\ IF SizesMatch(RemoteSize(remote.clen), tmx.len)
       THEN /\ skipped' = TRUE
            /\ Return("Fetcher", "fetch_ret")
       ELSE /\ skipped' = FALSE
            /\ Goto("f18")
    /\ UNCHANGED <<worldVars, response, gets, totalGets, calls, tmxAtCall, fileVars,
                   handles, extractVars, cleanVars, splitVars, reportVars>>

\* response = requests.get(url), then the status check.
FetchGet ==
    /\ pc = "f18"
    /\ gets' = gets + 1
    /\ totalGets' = totalGets + 1
    /\ response' = [status |-> remote.status, body |-> remote.body]
    /\ IF StatusOk(response')
       THEN Goto("f21")
       ELSE Raise("Fetcher", "TransferError")
    /\ UNCHANGED <<worldVars, heads, calls, skipped, tmxAtCall, fileVars, handles,
                   extractVars, cleanVars, splitVars, reportVars>>

\* with open(local_filename, "wb") as f: the file is created or truncated.
FetchOpen ==
    /\ pc = "f21"
    /\ tmx' = EmptyTmx
    /\ handles' = handles \cup {"tmx"}
    /\ Goto("f22")
    /\ UNCHANGED <<worldVars, fetchVars, raw, clean, en, kab, extractVars, cleanVars,
                   splitVars, reportVars>>

\* f.write(response.content), and the with block closes the file.
FetchWrite ==
    /\ pc = "f22"
    /\ tmx' = TmxFile(response.body)
    /\ handles' = handles \ {"tmx"}
    /\ Return("Fetcher", "fetch_ret")
    /\ UNCHANGED <<worldVars, fetchVars, raw, clean, en, kab, extractVars, cleanVars,
                   splitVars, reportVars>>

\* download_tmx is called once more against the same remote resource.
FetchAgain ==
    /\ pc \in {"fetch_ret", "raised"}
    /\ calls < MaxCalls
    /\ pc' = "f10"
    /\ calls' = calls + 1
    /\ gets' = 0
    /\ heads' = 0
    /\ skipped' = FALSE
    /\ tmxAtCall' = tmx
    /\ response' = NoResponse
    /\ started' = Append(started, "Fetcher")
    /\ failed' = "none"
    /\ err' = "none"
    /\ UNCHANGED <<worldVars, totalGets, completed, printed, exitStatus, fileVars,
                   handles, extractVars, cleanVars, splitVars, reportVars>>

-----------------------------------------------------------------------------
(* extract_parallel_corpus, with src_lang="en" and tgt_lang="kab" *)

SrcLang == <<"e", "n">>
TgtLang == <<"k", "a", "b">>
OtherLang == <<"f", "r">>

\* A <tuv>: its xml:lang, whether it has a <seg>, and the <seg>'s flattened text.
Tuv(lang, hasSeg, text) == [lang |-> lang, hasSeg |-> hasSeg, text |-> text]

\* text = ''.join(seg.itertext()).strip()
SegText(tuv) == Strip(tuv.text)

\* texts[lang] after the loop over the <tuv> elements of one <tu>
RECURSIVE Collect(_, _)
Collect(tu, lang) ==
    IF tu = <<>> THEN <<>>
    ELSE LET tuv == Head(tu)
         IN  IF tuv.lang = lang /\ tuv.hasSeg /\ SegText(tuv) # <<>>
             THEN <<SegText(tuv)>> \o Collect(Tail(tu), lang)
             ELSE Collect(Tail(tu), lang)

\* if texts[src_lang] and texts[tgt_lang], mutated: one language is enough.
EmitsRowEither(tu) == Collect(tu, SrcLang) # <<>> \/ Collect(tu, TgtLang) # <<>>

\* if texts[src_lang] and texts[tgt_lang]:
EmitsRow(tu) == Collect(tu, SrcLang) # <<>> /\ Collect(tu, TgtLang) # <<>>

\* f"{' '.join(texts[src_lang])}\t{' '.join(texts[tgt_lang])}\n"
PairRow(tu) ==
    Join(Collect(tu, SrcLang), <<SP>>) \o <<TAB>> \o Join(Collect(tu, TgtLang), <<SP>>) \o <<NL>>

\* f"{src_lang}\t{tgt_lang}\n"
HeaderLine == SrcLang \o <<TAB>> \o TgtLang \o <<NL>>

\* What a <tu> holds, read off the document and not off the extractor's lists.
HasSegmentFor(tu, lang) ==
    \E i \in 1..Len(tu) :
        /\ tu[i].lang = lang
        /\ tu[i].hasSeg
        /\ \E j \in 1..Len(tu[i].text) : ~IsSpace(tu[i].text[j])

IsPlain(tu) ==
    \A i \in 1..Len(tu) :
        LET t == Strip(tu[i].text)
        IN  \A j \in 1..Len(t) : t[j] \notin {TAB, NL, CR}

\* What visiting one <tu> does: the text it appends to the file (none when a
\* language is missing), and what the <tu> held.
TUEffect(tu) ==
    [row |-> IF EmitsRow(tu) THEN PairRow(tu) ELSE <<>>,
     hasSrc |-> HasSegmentFor(tu, SrcLang),
     hasTgt |-> HasSegmentFor(tu, TgtLang),
     plain |-> IsPlain(tu)]

\* tree = ET.parse(tmx_file); root = tree.getroot()
ExtractParse ==
    /\ pc = "e29"
    /\ IF ~tmx.exists THEN /\ Raise("Extractor", "FileNotFound")
                           /\ tus' = <<>>
       ELSE IF ~tmx.wf THEN /\ Raise("Extractor", "ParseError")
                            /\ tus' = <<>>
       ELSE /\ Goto("e33")
            /\ tus' = tmx.tus
    /\ UNCHANGED <<worldVars, fetchVars, fileVars, handles, tuCount, rawBefore,
                   tuFacts, cleanVars, splitVars, reportVars>>

\* with open(tsv_file, "w") as out_file: out_file.write(header)
ExtractOpen ==
    /\ pc = "e33"
    /\ raw' = TextFile(HeaderLine)
    /\ rawBefore' = HeaderLine
    /\ handles' = handles \cup {"raw"}
    /\ Goto("e36")
    /\ UNCHANGED <<worldVars, fetchVars, tmx, clean, en, kab, tus, tuCount, tuFacts,
                   cleanVars, splitVars, reportVars>>

\* One iteration of "for tu in root.findall(...)": the inner loop, then the write.
ExtractEffect(e) ==
    /\ pc = "e36"
    /\ raw' = TextFile(raw.data \o e.row)
    /\ rawBefore' = raw.data
    /\ tuFacts' = [visited |-> TRUE, hasSrc |-> e.hasSrc, hasTgt |-> e.hasTgt,
                   allPlain |-> tuFacts.allPlain /\ e.plain]
    /\ tuCount' = tuCount + 1
    /\ Goto("e36")
    /\ UNCHANGED <<worldVars, fetchVars, tmx, clean, en, kab, handles, cleanVars,
                   splitVars, reportVars>>

ExtractTU(tu) == ExtractEffect(TUEffect(tu))

\* The next <tu> of the document that was parsed.
ExtractNextTU ==
    /\ tus # <<>>
    /\ ExtractTU(Head(tus))
    /\ tus' = Tail(tus)

\* The end of the loop: the with block closes the file, and the function returns.
ExtractClose ==
    /\ pc = "e36"
    /\ tus = <<>>
    /\ handles' = handles \ {"raw"}
    /\ Return("Extractor", "extract_ret")
    /\ UNCHANGED <<worldVars, fetchVars, fileVars, extractVars, cleanVars, splitVars,
                   reportVars>>

\* The documents the extractor is run on by itself are not enumerated: each <tu>
\* is drawn when the loop reaches it.
Langs == {SrcLang, TgtLang, OtherLang}
SegTexts == {<<SP>>, <<SP, "a", SP>>, <<"a", TAB, "a">>}
Tuvs == {Tuv(l, FALSE, <<>>) : l \in Langs}
            \cup {Tuv(l, TRUE, t) : l \in Langs, t \in SegTexts}

RECURSIVE SeqsUpTo(_, _)
SeqsUpTo(S, n) ==
    IF n = 0 THEN {<<>>}
    ELSE LET shorter == SeqsUpTo(S, n - 1)
         IN  shorter \cup {Append(q, x) : q \in {r \in shorter : Len(r) = n - 1}, x \in S}

AnyTU == SeqsUpTo(Tuvs, MaxTuv)
AnyEffect == {TUEffect(tu) : tu \in AnyTU}

ExtractAnyTU ==
    /\ tuCount < MaxTU
    /\ \E e \in AnyEffect : ExtractEffect(e)
    /\ UNCHANGED tus

-----------------------------------------------------------------------------
(* clean_corpus *)

\* ['en', 'kab']
ExpectedHeader == <<SrcLang, TgtLang>>

\* header != ['en', 'kab'], mutated: only the first field is compared.
HeaderBadFirstOnly(header) == header = <<>> \/ header[1] # SrcLang

\* header != ['en', 'kab']
HeaderBad(header) == header # ExpectedHeader

\* The row test, mutated: the second field is not trimmed.
KeepRowUntrimmed(row) ==
    Len(row) = 2 /\ Strip(row[1]) # <<>> /\ row[2] # <<>>

\* len(row) == 2 and row[0].strip() and row[1].strip()
KeepRow(row) ==
    Len(row) = 2 /\ Strip(row[1]) # <<>> /\ Strip(row[2]) # <<>>

\* if not Path(input_path).exists(): raise FileNotFoundError
CleanCheck ==
    /\ pc = "c54"
    /\ IF raw.exists THEN Goto("c60") ELSE Raise("Cleaner", "FileNotFound")
    /\ UNCHANGED <<worldVars, fetchVars, fileVars, handles, extractVars, cleanVars,
                   splitVars, reportVars>>

\* kept = 0; removed = 0; the with statement opens both files; reader and writer.
CleanOpen ==
    /\ pc = "c60"
    /\ kept' = 0
    /\ removed' = 0
    /\ clean' = TextFile(<<>>)
    /\ handles' = handles \cup {"raw", "clean"}
    /\ rows' = CsvRows(raw.data)
    /\ Goto("c67")
    /\ UNCHANGED <<worldVars, fetchVars, tmx, raw, en, kab, extractVars, result,
                   splitVars, reportVars>>

\* header = next(reader), the header check and writer.writerow(header).
CleanHeader ==
    /\ pc = "c67"
    /\ IF rows = <<>>
       THEN /\ Raise("Cleaner", "EmptyInput")
            /\ handles' = handles \ {"raw", "clean"}
            /\ UNCHANGED <<rows, clean>>
       ELSE IF HeaderBad(Head(rows))
       THEN /\ Raise("Cleaner", "InvalidFormat")
            /\ handles' = handles \ {"raw", "clean"}
            /\ rows' = Tail(rows)
            /\ UNCHANGED clean
       ELSE /\ Goto("c74")
            /\ clean' = TextFile(clean.data \o WriteRow(Head(rows)))
            /\ rows' = Tail(rows)
            /\ UNCHANGED handles
    /\ UNCHANGED <<worldVars, fetchVars, tmx, raw, en, kab, extractVars, kept,
                   removed, result, splitVars, reportVars>>

\* One iteration of "for row in reader".
CleanRow ==
    /\ pc = "c74"
    /\ rows # <<>>
    /\ IF KeepRow(Head(rows))
       THEN /\ clean' = TextFile(clean.data \o WriteRow(Head(rows)))
            /\ kept' = kept + 1
            /\ UNCHANGED removed
       ELSE /\ removed' = removed + 1
            /\ UNCHANGED <<clean, kept>>
    /\ rows' = Tail(rows)
    /\ Goto("c74")
    /\ UNCHANGED <<worldVars, fetchVars, tmx, raw, en, kab, handles, extractVars,
                   result, splitVars, reportVars>>

\* The end of the loop: both files are closed, and (kept, removed) is returned.
CleanDone ==
    /\ pc = "c74"
    /\ rows = <<>>
    /\ handles' = handles \ {"raw", "clean"}
    /\ result' = [returned |-> TRUE, kept |-> kept, removed |-> removed]
    /\ Return("Cleaner", "clean_ret")
    /\ UNCHANGED <<worldVars, fetchVars, fileVars, extractVars, rows, kept, removed,
                   splitVars, reportVars>>

-----------------------------------------------------------------------------
(* split_tsv_to_txt *)

\* line.strip().split('\t')
SplitLineFields(line) == SplitOn(Strip(line), TAB)

\* en, kab = ...: exactly two values unpack.
Unpacks(parts) == Len(parts) = 2

\* The with statement opens the input, then creates or truncates both outputs.
SplitOpen ==
    /\ pc = "s94"
    /\ IF ~clean.exists
       THEN /\ Raise("Splitter", "FileNotFound")
            /\ UNCHANGED <<en, kab, handles, lines>>
       ELSE /\ Goto("s98")
            /\ en' = TextFile(<<>>)
            /\ kab' = TextFile(<<>>)
            /\ handles' = handles \cup {"clean", "en", "kab"}
            /\ lines' = ReadLines(clean.data)
    /\ UNCHANGED <<worldVars, fetchVars, tmx, raw, clean, extractVars, cleanVars,
                   reportVars>>

\* next(infile)  # Skip header
SplitSkipHeader ==
    /\ pc = "s98"
    /\ IF lines = <<>>
       THEN /\ Raise("Splitter", "StopIteration")
            /\ handles' = handles \ {"clean", "en", "kab"}
            /\ UNCHANGED lines
       ELSE /\ Goto("s99")
            /\ lines' = Tail(lines)
            /\ UNCHANGED handles
    /\ UNCHANGED <<worldVars, fetchVars, fileVars, extractVars, cleanVars, reportVars>>

\* One iteration of "for line in infile".
SplitLine ==
    /\ pc = "s99"
    /\ lines # <<>>
    /\ LET parts == SplitLineFields(Head(lines))
       IN  IF Unpacks(parts)
           THEN /\ en' = TextFile(en.data \o parts[1] \o <<NL>>)
                /\ kab' = TextFile(kab.data \o parts[2] \o <<NL>>)
                /\ Goto("s99")
                /\ UNCHANGED handles
           ELSE /\ Raise("Splitter", "MalformedRow")
                /\ handles' = handles \ {"clean", "en", "kab"}
                /\ UNCHANGED <<en, kab>>
    /\ lines' = Tail(lines)
    /\ UNCHANGED <<worldVars, fetchVars, tmx, raw, clean, extractVars, cleanVars,
                   reportVars>>

\* The end of the loop: the three files are closed.
SplitDone ==
    /\ pc = "s99"
    /\ lines = <<>>
    /\ handles' = handles \ {"clean", "en", "kab"}
    /\ Return("Splitter", "split_ret")
    /\ UNCHANGED <<worldVars, fetchVars, fileVars, extractVars, cleanVars, splitVars,
                   reportVars>>

-----------------------------------------------------------------------------
(* The final report and the top level. *)

\* sum(1 for _ in open(f, 'r', encoding="utf-8"))
CountLines(f) == Len(ReadLines(f.data))

\* count_lines(EN_FILE): open() is given no with block and no close(); the handle
\* is closed when the object is collected, which the language leaves open.
ReportEn ==
    /\ pc = "r128"
    /\ enCount' = CountLines(en)
    /\ \E collected \in BOOLEAN :
           handles' = IF collected THEN handles ELSE handles \cup {"en"}
    /\ Goto("r129")
    /\ UNCHANGED <<worldVars, fetchVars, fileVars, extractVars, cleanVars, splitVars,
                   kabCount>>

\* count_lines(KAB_FILE), and the try block ends.
ReportKab ==
    /\ pc = "r129"
    /\ kabCount' = CountLines(kab)
    /\ \E collected \in BOOLEAN :
           handles' = IF collected THEN handles ELSE handles \cup {"kab"}
    /\ pc' = "done"
    /\ completed' = Append(completed, "Reporter")
    /\ exitStatus' = 0
    /\ UNCHANGED <<started, failed, err, printed>>
    /\ UNCHANGED <<worldVars, fetchVars, fileVars, extractVars, cleanVars, splitVars,
                   enCount>>

\* The pc at which each stage returns, and the pc at which the next one begins.
Call(from, to, stage) ==
    /\ pc = from
    /\ pc' = to
    /\ started' = Append(started, stage)
    /\ UNCHANGED <<completed, failed, err, printed, exitStatus>>
    /\ UNCHANGED <<worldVars, fetchVars, fileVars, handles, extractVars, cleanVars,
                   splitVars, reportVars>>

\* extract_parallel_corpus(TMX_FILE, RAW_TSV)
MainCallExtract == Call("fetch_ret", "e29", "Extractor")

\* kept, removed = clean_corpus(RAW_TSV, CLEAN_TSV, verbose=True)
MainCallClean == Call("extract_ret", "c54", "Cleaner")

\* split_tsv_to_txt(CLEAN_TSV, EN_FILE, KAB_FILE)
MainCallSplit == Call("clean_ret", "s94", "Splitter")

\* The final report begins.
MainCallReport == Call("split_ret", "r128", "Reporter")

\* except Exception as e, mutated: the error is swallowed and the run goes on.
MainExceptResume ==
    /\ pc = "raised"
    /\ pc' = "c54"
    /\ started' = Append(started, "Cleaner")
    /\ printed' = TRUE
    /\ UNCHANGED <<completed, failed, err, exitStatus>>
    /\ UNCHANGED <<worldVars, fetchVars, fileVars, handles, extractVars, cleanVars,
                   splitVars, reportVars>>

\* except Exception as e: print(...); exit(1)
MainExcept ==
    /\ pc = "raised"
    /\ pc' = "exited"
    /\ printed' = TRUE
    /\ exitStatus' = 1
    /\ UNCHANGED <<started, completed, failed, err>>
    /\ UNCHANGED <<worldVars, fetchVars, fileVars, handles, extractVars, cleanVars,
                   splitVars, reportVars>>

-----------------------------------------------------------------------------
(* Initial states and specifications. *)

Headers == {[present |-> FALSE, value |-> 0]}
               \cup {[present |-> TRUE, value |-> n] : n \in 0..MaxLen}
Statuses == {SUCCESS, 404}

Body(len, wf, doc) == [len |-> len, wf |-> wf, tus |-> doc]

FetchIdle(file) ==
    /\ response = NoResponse
    /\ gets = 0
    /\ heads = 0
    /\ totalGets = 0
    /\ calls = 1
    /\ skipped = FALSE
    /\ tmxAtCall = file
ExtractIdle == tus = <<>> /\ tuCount = 0 /\ rawBefore = <<>> /\ tuFacts = NoFacts
CleanIdle == rows = <<>> /\ kept = 0 /\ removed = 0 /\ result = NoResult
SplitIdle == lines = <<>>
ReportIdle == enCount = 0 /\ kabCount = 0
MainAt(stage) ==
    /\ started = <<stage>>
    /\ completed = <<>>
    /\ failed = "none"
    /\ err = "none"
    /\ printed = FALSE
    /\ exitStatus = -1
NoRemote == [status |-> SUCCESS, clen |-> [present |-> FALSE, value |-> 0],
             body |-> Body(0, TRUE, <<>>)]

(* The whole pipeline, as the __main__ block runs it. *)

Pair(srcText, tgtText) == <<Tuv(SrcLang, TRUE, srcText), Tuv(TgtLang, TRUE, tgtText)>>

PipelineBodies ==
    { Body(1, TRUE, <<>>),
      Body(1, TRUE, <<Pair(<<"a">>, <<"a">>)>>),
      Body(2, TRUE, <<Pair(<<"a", TAB, "a">>, <<"a">>),
                      <<Tuv(SrcLang, TRUE, <<"a">>), Tuv(OtherLang, TRUE, <<"a">>)>>,
                      Pair(<<SP, "a">>, <<"a", SP>>)>>),
      Body(2, TRUE, <<Pair(<<"a">>, <<QUOTE, "a">>), Pair(<<"a">>, <<"a">>)>>),
      Body(2, FALSE, <<>>) }

Init ==
    /\ pc = "f10"
    /\ remote \in [status : Statuses, clen : Headers, body : PipelineBodies]
    /\ tmx \in {NoTmx} \cup {TmxFile(b) : b \in PipelineBodies}
    /\ raw = NoFile /\ clean = NoFile /\ en = NoFile /\ kab = NoFile
    /\ handles = {}
    /\ FetchIdle(tmx)
    /\ ExtractIdle /\ CleanIdle /\ SplitIdle /\ ReportIdle
    /\ MainAt("Fetcher")

Next ==
    \/ FetchExists \/ FetchHead \/ FetchGet \/ FetchOpen \/ FetchWrite
    \/ MainCallExtract
    \/ ExtractParse \/ ExtractOpen \/ ExtractNextTU \/ ExtractClose
    \/ MainCallClean
    \/ CleanCheck \/ CleanOpen \/ CleanHeader \/ CleanRow \/ CleanDone
    \/ MainCallSplit
    \/ SplitOpen \/ SplitSkipHeader \/ SplitLine \/ SplitDone
    \/ MainCallReport
    \/ ReportEn \/ ReportKab
    \/ MainExcept

Spec == Init /\ [][Next]_vars

(* download_tmx called MaxCalls times in a row against one remote resource. *)

FetchBodies == {Body(n, wf, <<>>) : n \in 0..MaxLen, wf \in BOOLEAN}

InitFetch ==
    /\ pc = "f10"
    /\ remote \in [status : Statuses, clen : Headers, body : FetchBodies]
    /\ tmx \in {NoTmx} \cup {TmxFile(b) : b \in FetchBodies}
    /\ raw = NoFile /\ clean = NoFile /\ en = NoFile /\ kab = NoFile
    /\ handles = {}
    /\ FetchIdle(tmx)
    /\ ExtractIdle /\ CleanIdle /\ SplitIdle /\ ReportIdle
    /\ MainAt("Fetcher")

NextFetch ==
    \/ FetchExists \/ FetchHead \/ FetchGet \/ FetchOpen \/ FetchWrite
    \/ FetchAgain

SpecFetch == InitFetch /\ [][NextFetch]_vars

(* extract_parallel_corpus on any document of at most MaxTU <tu> elements. *)

InitExtract ==
    /\ pc = "e29"
    /\ remote = NoRemote
    /\ tmx \in {NoTmx, TmxFile(Body(1, FALSE, <<>>)), TmxFile(Body(1, TRUE, <<>>))}
    /\ raw \in {NoFile, TextFile(<<"a", NL>>)}
    /\ clean = NoFile /\ en = NoFile /\ kab = NoFile
    /\ handles = {}
    /\ FetchIdle(tmx)
    /\ ExtractIdle /\ CleanIdle /\ SplitIdle /\ ReportIdle
    /\ MainAt("Extractor")

NextExtract == ExtractParse \/ ExtractOpen \/ ExtractAnyTU \/ ExtractClose

SpecExtract == InitExtract /\ [][NextExtract]_vars

(* clean_corpus on any raw corpus file, then split_tsv_to_txt on its output. *)

CsvChars == {"a", SP, TAB, NL, QUOTE}
SampleRow == <<"a", TAB, "a", NL>>
OddHeaders ==
    { TgtLang \o <<TAB>> \o SrcLang \o <<NL>>,
      <<NL>>,
      SrcLang \o <<NL>>,
      SrcLang \o <<TAB>> \o TgtLang \o <<TAB, "a", NL>>,
      SrcLang \o <<TAB, SP>> \o TgtLang \o <<NL>> }
GoodHeaders ==
    { HeaderLine,
      <<QUOTE>> \o SrcLang \o <<QUOTE, TAB>> \o TgtLang \o <<NL>> }
RawInputs ==
    {<<>>, SrcLang \o <<TAB>> \o TgtLang}
        \cup {HeaderLine \o b : b \in SeqsUpTo(CsvChars, MaxBody)}
        \cup {h \o b : h \in OddHeaders \cup GoodHeaders, b \in {<<>>, SampleRow}}

InitClean ==
    /\ pc = "c54"
    /\ remote = NoRemote
    /\ tmx = NoTmx
    /\ raw \in {NoFile} \cup {TextFile(d) : d \in RawInputs}
    /\ clean = NoFile /\ en = NoFile /\ kab = NoFile
    /\ handles = {}
    /\ FetchIdle(tmx)
    /\ ExtractIdle /\ CleanIdle /\ SplitIdle /\ ReportIdle
    /\ MainAt("Cleaner")

NextClean ==
    \/ CleanCheck \/ CleanOpen \/ CleanHeader \/ CleanRow \/ CleanDone
    \/ MainCallSplit
    \/ SplitOpen \/ SplitSkipHeader \/ SplitLine \/ SplitDone

SpecClean == InitClean /\ [][NextClean]_vars

(* split_tsv_to_txt on any cleaned corpus of at most MaxRows data rows. *)

FieldChars == {"a", SP}
CleanFields == {f \in SeqsUpTo(FieldChars, MaxField) : Strip(f) # <<>>}
CleanLines == {f \o <<TAB>> \o g \o <<NL>> : f \in CleanFields, g \in CleanFields}
CleanedCorpora == {HeaderLine \o Join(ls, <<>>) : ls \in SeqsUpTo(CleanLines, MaxRows)}

InitSplit ==
    /\ pc = "s94"
    /\ remote = NoRemote
    /\ tmx = NoTmx
    /\ raw = NoFile
    /\ clean \in {NoFile, TextFile(<<>>)} \cup {TextFile(d) : d \in CleanedCorpora}
    /\ en = NoFile /\ kab = NoFile
    /\ handles = {}
    /\ FetchIdle(tmx)
    /\ ExtractIdle /\ CleanIdle /\ SplitIdle /\ ReportIdle
    /\ MainAt("Splitter")

NextSplit == SplitOpen \/ SplitSkipHeader \/ SplitLine \/ SplitDone

SpecSplit == InitSplit /\ [][NextSplit]_vars

-----------------------------------------------------------------------------
(* Properties. *)

IsPrefix(s, t) == Len(s) <= Len(t) /\ SubSeq(t, 1, Len(s)) = s

IsBlank(t) == \A j \in 1..Len(t) : IsSpace(t[j])

\* A row of exactly two fields, each with a character that is not white space.
IsValidPair(row) == Len(row) = 2 /\ ~IsBlank(row[1]) /\ ~IsBlank(row[2])

\* A line of text that ends in a newline and whose text before it is two
\* tab-separated fields, neither of them blank.
FieldsOfLine(line) == SplitOn(SubSeq(line, 1, Len(line) - 1), TAB)
IsPairLine(line) ==
    /\ line # <<>>
    /\ line[Len(line)] = NL
    /\ IsValidPair(FieldsOfLine(line))

FetchEnded == pc \in {"fetch_ret", "raised"}

\* C4, as stated: two runs of download_tmx in a row against an unchanged remote
\* resource issue exactly one full-body request between them.
C4_TwoRunsOneTransfer ==
    (calls = 2 /\ FetchEnded) => totalGets = 1

\* What C4 has to assume of the remote resource and of the first run.
C4_Assumed ==
    /\ remote.status = SUCCESS
    /\ remote.clen.present
    /\ remote.clen.value = remote.body.len
    /\ totalGets - gets = 1

\* C4, amended: when the first run issued the full-body request, and the remote
\* resource answers it with success and declares a Content-Length equal to its
\* body's length, the second run skips, so that the two runs issue exactly one
\* full-body request between them.
C4_TwoRunsOneTransferAmended ==
    (calls = 2 /\ FetchEnded /\ C4_Assumed)
        => (skipped /\ gets = 0 /\ totalGets = 1 /\ pc = "fetch_ret")

C4_Witness ==
    calls = 2 /\ pc = "fetch_ret" /\ C4_Assumed /\ skipped /\ heads = 1

\* C7: a non-success response to the full-body request makes download_tmx fail
\* with TransferError and leaves the destination as it was at the call; a call
\* that returns with the destination changed got a success response and wrote
\* its whole body.
C7_FailedTransferLeavesFile ==
    /\ (gets >= 1 /\ response.status # SUCCESS)
           => /\ pc = "raised"
              /\ failed = "Fetcher"
              /\ err = "TransferError"
              /\ tmx = tmxAtCall
              /\ "tmx" \notin handles
    /\ (pc = "fetch_ret" /\ tmx # tmxAtCall)
           => /\ response.status = SUCCESS
              /\ tmx = TmxFile(response.body)

C7_Witness ==
    /\ pc = "raised"
    /\ failed = "Fetcher"
    /\ tmxAtCall.exists
    /\ tmxAtCall.len > 0
    /\ tmx = tmxAtCall

\* C9: download_tmx skips the transfer, issuing no full-body request and leaving
\* the destination as it was, exactly when the destination exists and its length
\* is the declared content length; otherwise it issues one full-body request;
\* it never issues more than one.
C9_SkipIffSizesMatch ==
    /\ gets <= 1
    /\ FetchEnded =>
          /\ skipped <=> /\ tmxAtCall.exists
                         /\ remote.clen.present
                         /\ remote.clen.value = tmxAtCall.len
          /\ skipped => (gets = 0 /\ tmx = tmxAtCall /\ pc = "fetch_ret")
          /\ ~skipped => gets = 1

C9_Witness ==
    /\ FetchEnded
    /\ tmxAtCall.exists
    /\ ~remote.clen.present
    /\ ~skipped
    /\ gets = 1

ExtractWriting == pc \in {"e36", "extract_ret"}

\* The parts of C3 that hold of every document: the header is the first line,
\* and a <tu> without a non-blank segment for the source language or for the
\* target language adds nothing to the file.
C3_HeaderAndDroppedTUs ==
    ExtractWriting =>
        /\ raw.exists
        /\ IsPrefix(HeaderLine, raw.data)
        /\ LinesOf(raw.data)[1] = HeaderLine
        /\ (tuFacts.visited /\ ~(tuFacts.hasSrc /\ tuFacts.hasTgt))
               => raw.data = rawBefore
        /\ (tuFacts.visited /\ tuFacts.hasSrc /\ tuFacts.hasTgt)
               => raw.data # rawBefore /\ IsPrefix(rawBefore, raw.data)

C3_EveryRowIsPair ==
    \A i \in 2..Len(LinesOf(raw.data)) : IsPairLine(LinesOf(raw.data)[i])

\* C3, as stated: in the file extract_parallel_corpus writes, the header is the
\* first line, every line after it is two tab-separated fields that are not
\* blank, and a <tu> lacking the source or the target language adds no row.
C3_RowsWellFormed ==
    ExtractWriting => (C3_HeaderAndDroppedTUs /\ C3_EveryRowIsPair)

\* C3, amended: the same, the shape of the rows being claimed only of documents
\* in which no segment's trimmed text holds a tab or a line break.
C3_RowsWellFormedAmended ==
    /\ C3_HeaderAndDroppedTUs
    /\ (ExtractWriting /\ tuFacts.allPlain) => C3_EveryRowIsPair

C3_Witness ==
    /\ pc = "extract_ret"
    /\ tuCount = 2
    /\ tuFacts.allPlain
    /\ tuFacts.hasSrc
    /\ ~tuFacts.hasTgt
    /\ Len(LinesOf(raw.data)) = 2
    /\ \E i \in 1..Len(raw.data) : raw.data[i] = SP

CleanLooping == pc \notin {"c54", "c60", "c67"} /\ failed # "Cleaner"

\* The rows the csv reader has handed to the loop so far, the header left out.
RowsProcessed ==
    LET all == CsvRows(raw.data)
    IN  SubSeq(all, 2, Len(all) - Len(rows))

\* C1: after every iteration of clean_corpus's loop kept + removed is the number
\* of rows processed; a row is counted as kept, and written, exactly when it has
\* two fields that are both not blank; the counts returned add up to the number
\* of rows after the header.
C1_CountsPartitionRows ==
    CleanLooping =>
        /\ kept + removed = Len(RowsProcessed)
        /\ kept = Len(SelectSeq(RowsProcessed, IsValidPair))
        /\ CsvRows(clean.data)
               = <<CsvRows(raw.data)[1]>> \o SelectSeq(RowsProcessed, IsValidPair)
        /\ result.returned
               => /\ result.kept = kept
                  /\ result.removed = removed
                  /\ kept + removed = Len(CsvRows(raw.data)) - 1

C1_Witness ==
    /\ pc = "clean_ret"
    /\ result.returned
    /\ result.kept >= 1
    /\ result.removed >= 1

\* C5: clean_corpus on an existing file fails with EmptyInput when the file has
\* no rows, with InvalidFormat when its first row is not the two fields en, kab,
\* and otherwise writes the header as the first row of the output; a failure
\* processes no data row and returns nothing.
C5_HeaderChecked ==
    (raw.exists /\ pc \notin {"c54", "c60", "c67"}) =>
        LET all == CsvRows(raw.data)
        IN  /\ all = <<>> => (failed = "Cleaner" /\ err = "EmptyInput")
            /\ (all # <<>> /\ all[1] # <<SrcLang, TgtLang>>)
                   => (failed = "Cleaner" /\ err = "InvalidFormat")
            /\ (all # <<>> /\ all[1] = <<SrcLang, TgtLang>>)
                   => /\ failed # "Cleaner"
                      /\ CsvRows(clean.data) # <<>>
                      /\ CsvRows(clean.data)[1] = all[1]
                      /\ IsPrefix(HeaderLine, UniversalNewlines(clean.data))
            /\ failed = "Cleaner"
                   => /\ pc = "raised"
                      /\ kept = 0 /\ removed = 0
                      /\ ~result.returned
                      /\ clean.data = <<>>
                      /\ "raw" \notin handles

C5_Witness ==
    /\ pc = "raised"
    /\ err = "InvalidFormat"
    /\ Len(CsvRows(raw.data)) >= 2
    /\ CsvRows(raw.data)[1] = <<TgtLang, SrcLang>>

\* C10: when clean_corpus returned (kept, removed), split_tsv_to_txt on its
\* output raises no malformed-row error and writes kept lines to each file.
C10_CleanerGuaranteesSplitterShape ==
    (result.returned /\ (pc = "split_ret" \/ failed = "Splitter"))
        => /\ pc = "split_ret"
           /\ CountLines(en) = result.kept
           /\ CountLines(kab) = result.kept

\* A cleaned corpus as text: the header line, then lines of two fields each.
IsCleanedCorpus(d) ==
    /\ LinesOf(d) # <<>>
    /\ LinesOf(d)[1] = HeaderLine
    /\ \A i \in 2..Len(LinesOf(d)) : IsPairLine(LinesOf(d)[i])

\* C2: for a cleaned corpus of K data rows split_tsv_to_txt writes K lines to
\* each file, line i of the first being field 1 of data row i and line i of the
\* second being field 2 of it.
C2_SplitAligned ==
    (clean.exists /\ IsCleanedCorpus(clean.data)
                  /\ (pc = "split_ret" \/ failed = "Splitter"))
        => LET data == Tail(LinesOf(clean.data))
           IN  /\ pc = "split_ret"
               /\ LinesOf(en.data) = [i \in 1..Len(data) |-> FieldsOfLine(data[i])[1] \o <<NL>>]
               /\ LinesOf(kab.data) = [i \in 1..Len(data) |-> FieldsOfLine(data[i])[2] \o <<NL>>]

StageEnded ==
    pc \in {"fetch_ret", "extract_ret", "clean_ret", "split_ret", "done",
            "raised", "exited"}

\* C6: the stages start in the order Fetcher, Extractor, Cleaner, Splitter,
\* Reporter, each after the one before it returned; once a stage has raised no
\* other stage starts, and the run ends in the except clause, with the message
\* printed and exit status 1.
C6_StagesInOrder ==
    /\ IsPrefix(started, StageOrder)
    /\ IsPrefix(completed, started)
    /\ Len(started) <= Len(completed) + 1
    /\ failed # "none"
           => /\ pc \in {"raised", "exited"}
              /\ failed = started[Len(started)]
              /\ Len(completed) = Len(started) - 1
    /\ pc = "raised" => (failed # "none" /\ exitStatus = -1 /\ ENABLED MainExcept)
    /\ pc = "exited" => (failed # "none" /\ printed /\ exitStatus = 1)
    /\ exitStatus = 0 => (failed = "none" /\ completed = StageOrder /\ ~printed)

C6_Witness ==
    /\ pc = "exited"
    /\ failed = "Splitter"
    /\ started = <<"Fetcher", "Extractor", "Cleaner", "Splitter">>
    /\ exitStatus = 1

\* C8: when a stage has ended, by returning or by raising, no file handle is
\* open.
C8_HandlesClosedAtStageEnd ==
    StageEnded => handles = {}

=============================================================================
